---- MODULE Spec2Model ----
(***************************************************************************)
(* Requires-side relation managers of data_platform_libs                   *)
(* (lib/charms/data_platform_libs/v0/database_requires.py):                *)
(* BaseRequires._diff, the relation-changed handlers of DatabaseRequires,  *)
(* KafkaRequires and ZookeeperRequires, the alias allocation of            *)
(* DatabaseRequires and the leader-gated write of the local application    *)
(* databag.                                                                *)
(*                                                                         *)
(* A databag is a function from the keys it holds to their values, so      *)
(* DOMAIN bag is Python's bag.keys().  Values are abstract strings: the    *)
(* code only ever compares them for equality.                              *)
(***************************************************************************)
EXTENDS Integers, Sequences, FiniteSets, TLC

\* Python's None: an absent key, a missing alias, an event without a unit.
None == "None"

\* ---------------------------------------------------------------- bounds

\* Number of distinct values a remote key can take.
NumValues == 2

\* Number of relations the charm sees during one run: relation ids are
\* 1..MaxRelations and the runtime never reuses the id of a removed relation.
MaxRelations == 2

\* limit of the relation in the charm's metadata (len(CLUSTER_ALIASES)): the
\* runtime keeps at most this many relations established at a time.
ConnectionLimit == 2

ValueNames == <<"v1", "v2", "v3", "v4">>

Values == {ValueNames[i] : i \in 1..NumValues}

Relations == 1..MaxRelations

\* The keys the remote application publishes in this model: the four the
\* handlers watch, one they do not watch, and the reserved key "data".
WatchedKeys == {"username", "password", "endpoints", "read-only-endpoints"}

RemoteKeys == WatchedKeys \cup {"tls", "data"}

\* The sets of keys a remote application publishes during one run: all the
\* watched keys, or a pair of them next to an unwatched key and "data".
Schemas == {WatchedKeys,
            {"username", "password", "tls", "data"},
            {"endpoints", "read-only-endpoints", "tls", "data"}}

\* Iteration order of a databag's keys (dict order), used by json_dumps.
KeyOrder == <<"username", "password", "endpoints", "read-only-endpoints", "tls", "data">>

Adapters == {"database", "kafka", "zookeeper"}

\* Candidate alias names; a configured pool is a prefix of this list.
AliasNames == <<"cluster1", "cluster2", "cluster3", "cluster4">>

AppNames == <<"database", "another-database", "third-database", "fourth-database">>

\* Remote application of a relation (event.app, relation.app).
RemoteApp(r) == AppNames[r]

UnitNames == <<"database/0", "another-database/0", "third-database/0", "fourth-database/0">>

\* Remote units that can cause a trigger; None is an application-level change.
RemoteUnits(r) == {None, UnitNames[r]}

EmptyBag == << >>

\* ----------------------------------------------------------------- state

VARIABLES
    adapter,            \* which manager the charm constructed
    schema,             \* the keys the remote application publishes
    relations_aliases,  \* DatabaseRequires.relations_aliases: a sequence, or None
    leader,             \* self.local_unit.is_leader()
    rels,               \* ids of the live relations of relation_name
    remote,             \* remote[r] = relation.data[relation.app]
    unitbag,            \* unitbag[r] = relation.data[self.local_unit]
    appbag,             \* appbag[r] = relation.data[self.local_app]
    emitted,            \* events emitted by the last handler, in order
    extra_user_roles,   \* self.extra_user_roles: a string, or None
    diff,               \* Diff returned by the last _diff call
    last,               \* the last operation: [op, rel, unit, again]; again says
                        \* that _diff ran twice in a row on rel, nothing between
    constructed,        \* the manager's __init__ has returned
    gone,               \* ids of the relations the runtime has removed
    raised,             \* the exception the last operation raised, or None
    returned,           \* what the last operation returned to its caller, or None
    defined             \* the <<alias, kind>> event sources defined on the
                        \* DatabaseEvents object that every manager's `on` is

vars == <<adapter, schema, relations_aliases, extra_user_roles, leader, rels,
          remote, unitbag, appbag, emitted, diff, last, constructed, gone, raised,
          returned, defined>>

config == <<adapter, schema, relations_aliases, extra_user_roles>>

\* ------------------------------------------------------------ JSON, dicts

\* dict.get(key, default)
Get(bag, key, default) == IF key \in DOMAIN bag THEN bag[key] ELSE default

\* dict.update(data)
Update(bag, data) ==
    [k \in DOMAIN bag \cup DOMAIN data |-> IF k \in DOMAIN data THEN data[k] ELSE bag[k]]

\* The keys of KeyOrder[1..n] that bag holds, as <<key, value>> pairs in order.
RECURSIVE Items(_, _)
Items(bag, n) ==
    IF n = 0 THEN << >>
    ELSE IF KeyOrder[n] \in DOMAIN bag
         THEN Append(Items(bag, n - 1), <<KeyOrder[n], bag[KeyOrder[n]]>>)
         ELSE Items(bag, n - 1)

\* json.dumps of a flat dict: the text of a JSON object, as its member list.
json_dumps(bag) == Items(bag, Len(KeyOrder))

\* json.loads of the text of a JSON object: the last member of a name wins.
json_loads(text) ==
    LET names == {text[i][1] : i \in 1..Len(text)}
        lastOf(k) == CHOOSE i \in 1..Len(text) :
                        /\ text[i][1] = k
                        /\ \A j \in 1..Len(text) : text[j][1] = k => j <= i
    IN  [k \in names |-> text[lastOf(k)][2]]

\* The JSON text "{}".
EmptyJson == << >>

\* A text that is not JSON: its one member has no value.
Corrupt == <<<<"{">>>>

\* json.loads accepts the text.
Parses(text) == \A i \in 1..Len(text) : Len(text[i]) = 2

\* ------------------------------------------------- fetch_relation_data

\* {key: value for key, value in relation.data[relation.app].items() if key != "data"}
without_data(bag) == [k \in DOMAIN bag \ {"data"} |-> bag[k]]

fetch_mut_keep_data == [r \in rels |-> remote[r]]

\* BaseRequires.fetch_relation_data: one entry for each of self.relations.
fetch_relation_data == [r \in rels |-> without_data(remote[r])]

\* ------------------------------------------------------ BaseRequires._diff

old_data_mut_empty(r) == json_loads(EmptyJson)

\* old_data = json.loads(event.relation.data[self.local_unit].get("data", "{}"))
old_data(r) == json_loads(Get(unitbag[r], "data", EmptyJson))

new_data_mut_all(r) == remote[r]

\* new_data = {key: value for ... in event.relation.data[event.app].items() if key != "data"}
new_data(r) == [k \in DOMAIN remote[r] \ {"data"} |-> remote[r][k]]

\* _diff fails: json.loads of a baseline that is not JSON raises
\* json.JSONDecodeError, and nothing in _diff or its callers catches it.
diff_raises(r) ==
    IF Parses(Get(unitbag[r], "data", EmptyJson)) THEN None ELSE "JSONDecodeError"

added_mut_all(old, new) == DOMAIN new

added(old, new) == DOMAIN new \ DOMAIN old

deleted_mut_all(old, new) == DOMAIN old

deleted(old, new) == DOMAIN old \ DOMAIN new

changed_mut_get(old, new) == {k \in DOMAIN new : Get(old, k, None) # new[k]}

changed_mut_never(old, new) == {}

changed(old, new) == {k \in DOMAIN old \cap DOMAIN new : old[k] # new[k]}

\* Diff(added, changed, deleted)
DiffOf(old, new) ==
    [added |-> added(old, new), changed |-> changed(old, new), deleted |-> deleted(old, new)]

NoDiff == [added |-> {}, changed |-> {}, deleted |-> {}]

saved_mut_old(old, new) == json_dumps(old)

saved_mut_empty(old, new) == EmptyJson

saved_mut_keep_ro(old, new) ==
    json_dumps([k \in DOMAIN new \ ({"read-only-endpoints"} \ DOMAIN old) |->
                  IF k = "read-only-endpoints" THEN old[k] ELSE new[k]])

\* json.dumps(new_data), the text saved for the next diff check.
saved(old, new) == json_dumps(new)

unitbag_mut_shared(r) ==
    [x \in Relations |->
        IF x \in rels
        THEN Update(unitbag[x], [k \in {"data"} |-> saved(old_data(r), new_data(r))])
        ELSE unitbag[x]]

\* The local unit databag after _diff: .update({"data": json.dumps(new_data)})
unitbag_after_diff(r) ==
    [unitbag EXCEPT ![r] = Update(@, [k \in {"data"} |-> saved(old_data(r), new_data(r))])]

\* ------------------------------------------------- aliases and emission

\* Python truthiness of an optional string.
Truthy(x) == x # None /\ x # ""

get_alias_mut_first(relation_id) ==
    IF rels # {}
    THEN Get(unitbag[CHOOSE x \in rels : \A y \in rels : x <= y], "alias", None)
    ELSE None

get_alias_mut_last(relation_id) ==
    IF rels # {}
    THEN Get(unitbag[CHOOSE x \in rels : \A y \in rels : y <= x], "alias", None)
    ELSE None

\* DatabaseRequires._get_relation_alias
get_relation_alias(relation_id) ==
    IF relation_id \in rels THEN Get(unitbag[relation_id], "alias", None) ELSE None

\* An event as the framework records it: the event source it was emitted on
\* (f"{alias}_{name}" when alias is set) and the payload of emit().
Event(name, alias, e) ==
    [name |-> name, alias |-> alias, relation |-> e.rel, app |-> RemoteApp(e.rel), unit |-> e.unit]

emit_mut_leader_only(e, event_name) ==
    IF leader THEN <<Event(event_name, None, e)>> ELSE << >>

\* self.on.<name>.emit(event.relation, app=event.app, unit=event.unit)
emit(e, event_name) == <<Event(event_name, None, e)>>

emit_aliased_mut_always(e, event_name) ==
    <<Event(event_name, get_relation_alias(e.rel), e)>>

emit_aliased_mut_no_unit(e, event_name) ==
    LET alias == get_relation_alias(e.rel)
    IN  IF Truthy(alias) THEN <<Event(event_name, alias, [e EXCEPT !.unit = None])>> ELSE << >>

\* DatabaseRequires._emit_aliased_event
emit_aliased_event(e, event_name) ==
    LET alias == get_relation_alias(e.rel)
    IN  IF Truthy(alias) THEN <<Event(event_name, alias, e)>> ELSE << >>

\* ------------------------------------------- _on_relation_changed_event

\* The event sources of DatabaseEvents, KafkaEvents and ZookeeperEvents.
DatabaseEvents == {"database_created", "endpoints_changed", "read_only_endpoints_changed"}

KafkaEvents == {"topic_created", "bootstrap_server_changed", "credentials_changed"}

ZookeeperEvents == {"chroot_created", "endpoints_changed", "credentials_changed"}

database_mut_fallthrough(d, e) ==
    (IF "username" \in d.added /\ "password" \in d.added
     THEN emit(e, "database_created") \o emit_aliased_event(e, "database_created")
     ELSE << >>)
    \o (IF "endpoints" \in d.added \/ "endpoints" \in d.changed
        THEN emit(e, "endpoints_changed") \o emit_aliased_event(e, "endpoints_changed")
        ELSE << >>)
    \o (IF "read-only-endpoints" \in d.added \/ "read-only-endpoints" \in d.changed
        THEN emit(e, "read_only_endpoints_changed")
             \o emit_aliased_event(e, "read_only_endpoints_changed")
        ELSE << >>)

database_mut_endpoints_first(d, e) ==
    IF "endpoints" \in d.added \/ "endpoints" \in d.changed
    THEN emit(e, "endpoints_changed") \o emit_aliased_event(e, "endpoints_changed")
    ELSE IF "username" \in d.added /\ "password" \in d.added
    THEN emit(e, "database_created") \o emit_aliased_event(e, "database_created")
    ELSE IF "read-only-endpoints" \in d.added \/ "read-only-endpoints" \in d.changed
    THEN emit(e, "read_only_endpoints_changed")
         \o emit_aliased_event(e, "read_only_endpoints_changed")
    ELSE << >>

database_mut_ro_first(d, e) ==
    IF "username" \in d.added /\ "password" \in d.added
    THEN emit(e, "database_created") \o emit_aliased_event(e, "database_created")
    ELSE IF "read-only-endpoints" \in d.added \/ "read-only-endpoints" \in d.changed
    THEN emit(e, "read_only_endpoints_changed")
         \o emit_aliased_event(e, "read_only_endpoints_changed")
    ELSE IF "endpoints" \in d.added \/ "endpoints" \in d.changed
    THEN emit(e, "endpoints_changed") \o emit_aliased_event(e, "endpoints_changed")
    ELSE << >>

database_mut_ro_added_only(d, e) ==
    IF "username" \in d.added /\ "password" \in d.added
    THEN emit(e, "database_created") \o emit_aliased_event(e, "database_created")
    ELSE IF "endpoints" \in d.added \/ "endpoints" \in d.changed
    THEN emit(e, "endpoints_changed") \o emit_aliased_event(e, "endpoints_changed")
    ELSE IF "read-only-endpoints" \in d.added
    THEN emit(e, "read_only_endpoints_changed")
         \o emit_aliased_event(e, "read_only_endpoints_changed")
    ELSE << >>

database_mut_credentials(d, e) ==
    IF "username" \in d.added /\ "password" \in d.added
    THEN emit(e, "database_created") \o emit_aliased_event(e, "database_created")
    ELSE IF "endpoints" \in d.added \/ "endpoints" \in d.changed
    THEN emit(e, "endpoints_changed") \o emit_aliased_event(e, "endpoints_changed")
    ELSE IF "read-only-endpoints" \in d.added \/ "read-only-endpoints" \in d.changed
    THEN emit(e, "read_only_endpoints_changed")
         \o emit_aliased_event(e, "read_only_endpoints_changed")
    ELSE IF "username" \in d.changed \/ "password" \in d.changed
    THEN emit(e, "credentials_changed")
    ELSE << >>

database_mut_created_any(d, e) ==
    IF {"username", "password"} \subseteq d.added \cup d.changed
    THEN emit(e, "database_created") \o emit_aliased_event(e, "database_created")
    ELSE IF "endpoints" \in d.added \/ "endpoints" \in d.changed
    THEN emit(e, "endpoints_changed") \o emit_aliased_event(e, "endpoints_changed")
    ELSE IF "read-only-endpoints" \in d.added \/ "read-only-endpoints" \in d.changed
    THEN emit(e, "read_only_endpoints_changed")
         \o emit_aliased_event(e, "read_only_endpoints_changed")
    ELSE << >>

\* DatabaseRequires._on_relation_changed_event, after diff = self._diff(event)
database_changed(d, e) ==
    IF "username" \in d.added /\ "password" \in d.added
    THEN emit(e, "database_created") \o emit_aliased_event(e, "database_created")
    ELSE IF "endpoints" \in d.added \/ "endpoints" \in d.changed
    THEN emit(e, "endpoints_changed") \o emit_aliased_event(e, "endpoints_changed")
    ELSE IF "read-only-endpoints" \in d.added \/ "read-only-endpoints" \in d.changed
    THEN emit(e, "read_only_endpoints_changed")
         \o emit_aliased_event(e, "read_only_endpoints_changed")
    ELSE << >>

kafka_mut_added_only(d, e) ==
    IF "username" \in d.added /\ "password" \in d.added
    THEN emit(e, "topic_created")
    ELSE IF "endpoints" \in d.added
    THEN emit(e, "bootstrap_server_changed")
    ELSE IF "username" \in d.changed \/ "password" \in d.changed
    THEN emit(e, "credentials_changed")
    ELSE << >>

kafka_mut_on_deleted(d, e) ==
    IF "username" \in d.added /\ "password" \in d.added
    THEN emit(e, "topic_created")
    ELSE IF "endpoints" \in d.added \/ "endpoints" \in d.changed \/ "endpoints" \in d.deleted
    THEN emit(e, "bootstrap_server_changed")
    ELSE IF "username" \in d.changed \/ "password" \in d.changed
    THEN emit(e, "credentials_changed")
    ELSE << >>

\* KafkaRequires._on_relation_changed_event, after diff = self._diff(event)
kafka_changed(d, e) ==
    IF "username" \in d.added /\ "password" \in d.added
    THEN emit(e, "topic_created")
    ELSE IF "endpoints" \in d.added \/ "endpoints" \in d.changed
    THEN emit(e, "bootstrap_server_changed")
    ELSE IF "username" \in d.changed \/ "password" \in d.changed
    THEN emit(e, "credentials_changed")
    ELSE << >>

zookeeper_mut_username_only(d, e) ==
    IF "username" \in d.added /\ "password" \in d.added
    THEN emit(e, "chroot_created")
    ELSE IF "endpoints" \in d.added \/ "endpoints" \in d.changed
    THEN emit(e, "endpoints_changed")
    ELSE IF "username" \in d.changed
    THEN emit(e, "credentials_changed")
    ELSE << >>

\* ZookeeperRequires._on_relation_changed_event, after diff = self._diff(event)
zookeeper_changed(d, e) ==
    IF "username" \in d.added /\ "password" \in d.added
    THEN emit(e, "chroot_created")
    ELSE IF "endpoints" \in d.added \/ "endpoints" \in d.changed
    THEN emit(e, "endpoints_changed")
    ELSE IF "username" \in d.changed \/ "password" \in d.changed
    THEN emit(e, "credentials_changed")
    ELSE << >>

\* ------------------------------------------------------------- __init__

\* Python truthiness of relations_aliases: neither None nor an empty list.
HasAliases == IF relations_aliases = None THEN FALSE ELSE Len(relations_aliases) > 0

\* DatabaseRequires.__init__ raises ValueError: a truthy alias list whose
\* length differs from the relation's limit.
construct_raises ==
    /\ adapter = "database"
    /\ HasAliases
    /\ Len(relations_aliases) # ConnectionLimit

\* The alias-qualified event sources __init__ defines on self.on.
DefinedEvents ==
    IF adapter = "database" /\ HasAliases
    THEN {<<relations_aliases[i], n>> : i \in 1..Len(relations_aliases), n \in DatabaseEvents}
    ELSE {}

\* `on = DatabaseEvents()` is an attribute of the class DatabaseRequires, so
\* self.on is the same object in every manager, and define_event sets the
\* event source as an attribute of that object's class.  define_event refuses
\* a name that is already an attribute: the position in aliases of the first
\* alias whose events are defined already, or Len(aliases) + 1.
first_defined(aliases) ==
    LET taken == {i \in 1..Len(aliases) :
                    \E n \in DatabaseEvents : <<aliases[i], n>> \in defined}
    IN  IF taken = {} THEN Len(aliases) + 1
        ELSE CHOOSE i \in taken : \A j \in taken : i <= j

\* The loop over relations_aliases raises at the first alias that is defined
\* already ("an error related to duplicated events").
define_raises(aliases) ==
    IF first_defined(aliases) <= Len(aliases) THEN "RuntimeError" ELSE None

\* The event sources defined once the loop has ended or raised: those of the
\* aliases before the first one that is defined already.
define_events(aliases) ==
    defined \cup {<<aliases[i], n>> : i \in 1..(first_defined(aliases) - 1),
                                      n \in DatabaseEvents}

\* ------------------------------------------- _on_relation_joined_event

\* The constructor arguments of the unit tests' charms.
database == "data_platform"

topic == "data_platform_topic"

chroot == "/data_platform"

EXTRA_USER_ROLES == "CREATEDB,CREATEROLE"

\* The persisted alias of a live relation, None when it has none.
AliasOf(r) == Get(unitbag[r], "alias", None)

\* The aliases the live relations have persisted.
Claimed == {AliasOf(x) : x \in {y \in rels : Truthy(AliasOf(y))}}

available_mut_tail ==
    LET Free(a) == a \notin Claimed
        free == SelectSeq(relations_aliases, Free)
    IN  IF free = << >> THEN free ELSE Tail(free)

\* available_aliases after the loop of _assign_relation_alias: the list
\* without the aliases the live relations hold, in the list's order.
available_aliases ==
    LET Free(a) == a \notin Claimed
    IN  SelectSeq(relations_aliases, Free)

\* _assign_relation_alias fails: list.remove of an alias that is not (or no
\* longer) in the list raises ValueError, available_aliases[0] on an empty
\* list raises IndexError.
assign_raises(relation_id) ==
    IF ~HasAliases \/ Truthy(AliasOf(relation_id)) THEN None
    ELSE IF \E x \in rels :
               /\ Truthy(AliasOf(x))
               /\ \/ \A i \in 1..Len(relations_aliases) : relations_aliases[i] # AliasOf(x)
                  \/ \E y \in rels \ {x} : AliasOf(y) = AliasOf(x)
         THEN "ValueError"
    ELSE IF available_aliases = << >> THEN "IndexError"
    ELSE None

assign_mut_never(relation_id) == unitbag

assign_mut_default(relation_id) ==
    IF Truthy(AliasOf(relation_id)) THEN unitbag
    ELSE [unitbag EXCEPT ![relation_id] =
             Update(@, [k \in {"alias"} |->
                          IF HasAliases THEN available_aliases[1] ELSE AliasNames[1]])]

assign_mut_first(relation_id) ==
    IF ~HasAliases \/ Truthy(AliasOf(relation_id)) THEN unitbag
    ELSE [unitbag EXCEPT ![relation_id] = Update(@, [k \in {"alias"} |-> relations_aliases[1]])]

assign_mut_last(relation_id) ==
    IF ~HasAliases \/ Truthy(AliasOf(relation_id)) THEN unitbag
    ELSE [unitbag EXCEPT ![relation_id] =
             Update(@, [k \in {"alias"} |-> available_aliases[Len(available_aliases)]])]

assign_mut_again(relation_id) ==
    IF ~HasAliases \/ available_aliases = << >> THEN unitbag
    ELSE [unitbag EXCEPT ![relation_id] = Update(@, [k \in {"alias"} |-> available_aliases[1]])]

assign_mut_outside(relation_id) ==
    IF ~HasAliases \/ Truthy(AliasOf(relation_id)) THEN unitbag
    ELSE [unitbag EXCEPT ![relation_id] =
             Update(@, [k \in {"alias"} |-> AliasNames[Len(relations_aliases) + 1]])]

assign_mut_leader(relation_id) ==
    IF ~leader \/ ~HasAliases \/ Truthy(AliasOf(relation_id)) THEN unitbag
    ELSE [unitbag EXCEPT ![relation_id] = Update(@, [k \in {"alias"} |-> available_aliases[1]])]

assign_mut_reset(relation_id) ==
    IF ~HasAliases \/ Truthy(AliasOf(relation_id)) THEN unitbag
    ELSE [unitbag EXCEPT ![relation_id] = [k \in {"alias"} |-> available_aliases[1]]]

\* DatabaseRequires._assign_relation_alias: the local unit databags after a
\* call that does not raise.
assign_relation_alias(relation_id) ==
    IF ~HasAliases \/ Truthy(AliasOf(relation_id)) THEN unitbag
    ELSE [unitbag EXCEPT ![relation_id] = Update(@, [k \in {"alias"} |-> available_aliases[1]])]

\* relation.data[entity].update(data) on a relation databag: the databag sets
\* the keys one by one, and setting a key to the empty string removes it (as
\* the unit tests do to reset an alias).
databag_update(bag, data) ==
    LET merged == Update(bag, data)
    IN  [k \in {x \in DOMAIN merged : merged[x] # ""} |-> merged[k]]

update_mut_any_unit(relation_id, data) ==
    [appbag EXCEPT ![relation_id] = databag_update(@, data)]

update_mut_replace(relation_id, data) ==
    IF leader THEN [appbag EXCEPT ![relation_id] = databag_update(EmptyBag, data)] ELSE appbag

\* BaseRequires._update_relation_data: the local application databags after
\* the call.
update_relation_data(relation_id, data) ==
    IF leader THEN [appbag EXCEPT ![relation_id] = databag_update(@, data)] ELSE appbag

\* A dict of one key, and of one key next to "extra-user-roles".
Dict1(k, v) == [x \in {k} |-> v]

WithRoles(k, v) ==
    [x \in {k, "extra-user-roles"} |-> IF x = k THEN v ELSE extra_user_roles]

\* The data each manager's _on_relation_joined_event publishes.
database_joined_data ==
    IF Truthy(extra_user_roles) THEN WithRoles("database", database)
    ELSE Dict1("database", database)

kafka_joined_data ==
    IF extra_user_roles # None THEN WithRoles("topic", topic) ELSE Dict1("topic", topic)

zookeeper_joined_data ==
    IF extra_user_roles # None THEN WithRoles("chroot", chroot) ELSE Dict1("topic", chroot)

\* ---------------------------------------------------------------- actions

\* The operations that call _diff.
DiffOps == {"diff", "changed", "interrupted"}

\* The previous operation was a _diff call on relation r.
DiffJustRan(r) == last.op \in DiffOps /\ last.rel = r

\* The remote application sets one key of its databag.
RemoteSet(r, k, v) ==
    /\ constructed
    /\ r \in rels
    /\ k \in schema
    /\ Get(remote[r], k, None) # v
    /\ remote' = [remote EXCEPT ![r] = Update(@, [x \in {k} |-> v])]
    /\ emitted' = << >>
    /\ diff' = NoDiff
    /\ last' = [op |-> "remote", rel |-> r, unit |-> None, again |-> FALSE]
    /\ returned' = None
    /\ raised' = None
    /\ UNCHANGED <<config, defined, constructed, leader, rels, gone, unitbag, appbag>>

\* The remote application deletes one key of its databag.
RemoteDel(r, k) ==
    /\ constructed
    /\ r \in rels
    /\ k \in DOMAIN remote[r]
    /\ remote' = [remote EXCEPT ![r] = [x \in DOMAIN @ \ {k} |-> @[x]]]
    /\ emitted' = << >>
    /\ diff' = NoDiff
    /\ last' = [op |-> "remote", rel |-> r, unit |-> None, again |-> FALSE]
    /\ returned' = None
    /\ raised' = None
    /\ UNCHANGED <<config, defined, constructed, leader, rels, gone, unitbag, appbag>>

\* BaseRequires._diff called on its own, as the unit tests do.
CallDiff(r) ==
    /\ constructed
    /\ r \in rels
    /\ IF diff_raises(r) = None
       THEN diff' = DiffOf(old_data(r), new_data(r)) /\ unitbag' = unitbag_after_diff(r)
       ELSE diff' = NoDiff /\ UNCHANGED unitbag
    /\ emitted' = << >>
    /\ last' = [op |-> "diff", rel |-> r, unit |-> None, again |-> DiffJustRan(r)]
    /\ returned' = None
    /\ raised' = diff_raises(r)
    /\ UNCHANGED <<config, defined, constructed, leader, rels, gone, remote, appbag>>

\* The part of a relation-changed handler all three managers share.
Changed(r, u, events) ==
    /\ constructed
    /\ r \in rels
    /\ IF diff_raises(r) = None
       THEN /\ diff' = DiffOf(old_data(r), new_data(r))
            /\ unitbag' = unitbag_after_diff(r)
            /\ emitted' = events
       ELSE diff' = NoDiff /\ emitted' = << >> /\ UNCHANGED unitbag
    /\ last' = [op |-> "changed", rel |-> r, unit |-> u, again |-> DiffJustRan(r)]
    /\ returned' = None
    /\ raised' = diff_raises(r)
    /\ UNCHANGED <<config, defined, constructed, leader, rels, gone, remote, appbag>>

\* A relation-changed handler that stops between _diff's update of the
\* baseline and the classification of the diff (the TODO of _diff: "losing
\* the diff if some error happens in the charm before the diff is completely
\* checked"): the baseline is written, no event is emitted.
ChangedInterrupted(r, u) ==
    /\ constructed
    /\ r \in rels
    /\ diff_raises(r) = None
    /\ diff' = DiffOf(old_data(r), new_data(r))
    /\ unitbag' = unitbag_after_diff(r)
    /\ emitted' = << >>
    /\ last' = [op |-> "interrupted", rel |-> r, unit |-> u, again |-> DiffJustRan(r)]
    /\ returned' = None
    /\ raised' = None
    /\ UNCHANGED <<config, defined, constructed, leader, rels, gone, remote, appbag>>

\* The text under the key "data" of the local unit databag is damaged by a
\* writer other than _diff.
BaselineCorrupted(r) ==
    /\ constructed
    /\ r \in rels
    /\ "data" \in DOMAIN unitbag[r]
    /\ Parses(unitbag[r]["data"])
    /\ unitbag' = [unitbag EXCEPT ![r] = Update(@, [k \in {"data"} |-> Corrupt])]
    /\ emitted' = << >>
    /\ diff' = NoDiff
    /\ last' = [op |-> "corrupt", rel |-> r, unit |-> None, again |-> FALSE]
    /\ returned' = None
    /\ raised' = None
    /\ UNCHANGED <<config, defined, constructed, leader, rels, gone, remote, appbag>>

DatabaseRelationChanged(r, u) ==
    /\ adapter = "database"
    /\ Changed(r, u, database_changed(DiffOf(old_data(r), new_data(r)), [rel |-> r, unit |-> u]))

KafkaRelationChanged(r, u) ==
    /\ adapter = "kafka"
    /\ Changed(r, u, kafka_changed(DiffOf(old_data(r), new_data(r)), [rel |-> r, unit |-> u]))

ZookeeperRelationChanged(r, u) ==
    /\ adapter = "zookeeper"
    /\ Changed(r, u, zookeeper_changed(DiffOf(old_data(r), new_data(r)), [rel |-> r, unit |-> u]))

\* The charm constructs its manager.
Construct ==
    /\ ~constructed
    /\ raised = None
    /\ IF construct_raises
       THEN raised' = "ValueError" /\ UNCHANGED <<constructed, defined>>
       ELSE IF adapter = "database" /\ HasAliases
       THEN /\ raised' = define_raises(relations_aliases)
            /\ defined' = define_events(relations_aliases)
            /\ constructed' = (define_raises(relations_aliases) = None)
       ELSE raised' = None /\ constructed' = TRUE /\ UNCHANGED defined
    /\ emitted' = << >>
    /\ diff' = NoDiff
    /\ last' = [op |-> "construct", rel |-> 1, unit |-> None, again |-> FALSE]
    /\ returned' = None
    /\ UNCHANGED <<config, leader, rels, gone, remote, unitbag, appbag>>

\* The alias lists of a further DatabaseRequires the charm constructs for
\* another of its relations, whose limit is ConnectionLimit as well: every
\* list of ConnectionLimit distinct aliases.
OtherAliasLists ==
    {l \in [1..ConnectionLimit -> {AliasNames[i] : i \in 1..Len(AliasNames)}] :
        \A i, j \in 1..ConnectionLimit : l[i] = l[j] => i = j}

\* The charm constructs a further DatabaseRequires, for another relation,
\* in the same process: __init__ with relations_aliases = aliases.
ConstructAnother(aliases) ==
    /\ adapter = "database"
    /\ constructed
    /\ raised' = define_raises(aliases)
    /\ defined' = define_events(aliases)
    /\ emitted' = << >>
    /\ diff' = NoDiff
    /\ last' = [op |-> "another", rel |-> 1, unit |-> None, again |-> FALSE]
    /\ returned' = None
    /\ UNCHANGED <<config, constructed, leader, rels, gone, remote, unitbag, appbag>>

\* The runtime establishes the next relation, within the relation's limit.
RelationCreated(r) ==
    /\ constructed
    /\ r = Cardinality(rels \cup gone) + 1
    /\ Cardinality(rels) < ConnectionLimit
    /\ rels' = rels \cup {r}
    /\ emitted' = << >>
    /\ diff' = NoDiff
    /\ last' = [op |-> "created", rel |-> r, unit |-> None, again |-> FALSE]
    /\ returned' = None
    /\ raised' = None
    /\ UNCHANGED <<config, defined, constructed, leader, gone, remote, unitbag, appbag>>

\* The runtime removes a relation; its databags go with it.
RelationBroken(r) ==
    /\ constructed
    /\ r \in rels
    /\ rels' = rels \ {r}
    /\ gone' = gone \cup {r}
    /\ remote' = [remote EXCEPT ![r] = EmptyBag]
    /\ unitbag' = [unitbag EXCEPT ![r] = EmptyBag]
    /\ appbag' = [appbag EXCEPT ![r] = EmptyBag]
    /\ emitted' = << >>
    /\ diff' = NoDiff
    /\ last' = [op |-> "broken", rel |-> r, unit |-> None, again |-> FALSE]
    /\ returned' = None
    /\ raised' = None
    /\ UNCHANGED <<config, defined, constructed, leader>>

\* The runtime elects or deposes the local unit.
LeaderChanged ==
    /\ constructed
    /\ leader' = ~leader
    /\ emitted' = << >>
    /\ diff' = NoDiff
    /\ last' = [op |-> "leader", rel |-> 1, unit |-> None, again |-> FALSE]
    /\ returned' = None
    /\ raised' = None
    /\ UNCHANGED <<config, defined, constructed, rels, gone, remote, unitbag, appbag>>

\* The charm calls fetch_relation_data outside an event callback.
FetchRelationData ==
    /\ constructed
    /\ returned' = fetch_relation_data
    /\ emitted' = << >>
    /\ diff' = NoDiff
    /\ last' = [op |-> "fetch", rel |-> 1, unit |-> None, again |-> FALSE]
    /\ raised' = None
    /\ UNCHANGED <<config, defined, constructed, leader, rels, gone, remote, unitbag, appbag>>

\* The charm calls _get_relation_alias with the id of a live relation, of a
\* removed one or of one not yet established.
GetRelationAlias(relation_id) ==
    /\ constructed
    /\ returned' = get_relation_alias(relation_id)
    /\ emitted' = << >>
    /\ diff' = NoDiff
    /\ last' = [op |-> "alias", rel |-> relation_id, unit |-> None, again |-> FALSE]
    /\ raised' = None
    /\ UNCHANGED <<config, defined, constructed, leader, rels, gone, remote, unitbag, appbag>>

\* A key the charm itself keeps in the local application databag.
CharmKey == "charm-data"

\* The charm's own code, on the leader, publishes its key in the local
\* application databag of a relation.
CharmPublishes(r, v) ==
    /\ constructed
    /\ leader
    /\ r \in rels
    /\ Get(appbag[r], CharmKey, None) # v
    /\ appbag' = [appbag EXCEPT ![r] = databag_update(@, Dict1(CharmKey, v))]
    /\ emitted' = << >>
    /\ diff' = NoDiff
    /\ last' = [op |-> "charm", rel |-> r, unit |-> None, again |-> FALSE]
    /\ returned' = None
    /\ raised' = None
    /\ UNCHANGED <<config, defined, constructed, leader, rels, gone, remote, unitbag>>

\* What the relation-joined handlers share; a handler that raises in its
\* first call writes nothing.
Joined(r, failure, unitbags, appbags) ==
    /\ constructed
    /\ r \in rels
    /\ raised' = failure
    /\ IF failure = None
       THEN unitbag' = unitbags /\ appbag' = appbags
       ELSE UNCHANGED <<unitbag, appbag>>
    /\ emitted' = << >>
    /\ diff' = NoDiff
    /\ last' = [op |-> "joined", rel |-> r, unit |-> UnitNames[r], again |-> FALSE]
    /\ returned' = None
    /\ UNCHANGED <<config, defined, constructed, leader, rels, gone, remote>>

DatabaseRelationJoined(r) ==
    /\ adapter = "database"
    /\ Joined(r, assign_raises(r), assign_relation_alias(r),
              update_relation_data(r, database_joined_data))

KafkaRelationJoined(r) ==
    /\ adapter = "kafka"
    /\ Joined(r, None, unitbag, update_relation_data(r, kafka_joined_data))

ZookeeperRelationJoined(r) ==
    /\ adapter = "zookeeper"
    /\ Joined(r, None, unitbag, update_relation_data(r, zookeeper_joined_data))

\* ------------------------------------------------------- specifications

\* One established relation whose relation-joined hook has run: the managers'
\* change detection on every sequence of remote writes and triggers.
ChangeInit ==
    /\ adapter \in Adapters
    /\ schema \in Schemas
    /\ relations_aliases \in
          IF adapter = "database"
          THEN {None, SubSeq(AliasNames, 1, ConnectionLimit)}
          ELSE {None}
    /\ extra_user_roles = None
    /\ leader = TRUE
    /\ rels = {1}
    /\ remote = [r \in Relations |-> EmptyBag]
    /\ unitbag = [r \in Relations |->
                    IF r = 1 /\ relations_aliases # None
                    THEN [k \in {"alias"} |-> relations_aliases[1]]
                    ELSE EmptyBag]
    /\ appbag = [r \in Relations |-> EmptyBag]
    /\ emitted = << >>
    /\ diff = NoDiff
    /\ last = [op |-> "init", rel |-> 1, unit |-> None, again |-> FALSE]
    /\ constructed = TRUE
    /\ gone = {}
    /\ raised = None
    /\ returned = None
    /\ defined = DefinedEvents

ChangeNext ==
    \/ \E r \in Relations, k \in RemoteKeys, v \in Values : RemoteSet(r, k, v)
    \/ \E r \in Relations, k \in RemoteKeys : RemoteDel(r, k)
    \/ \E r \in Relations : CallDiff(r)
    \/ \E r \in Relations : \E u \in RemoteUnits(r) : DatabaseRelationChanged(r, u)
    \/ \E r \in Relations : \E u \in RemoteUnits(r) : KafkaRelationChanged(r, u)
    \/ \E r \in Relations : \E u \in RemoteUnits(r) : ZookeeperRelationChanged(r, u)

ChangeSpec == ChangeInit /\ [][ChangeNext]_vars

\* Change detection when the stored baseline can be damaged between two
\* triggers.
FaultInit == ChangeInit /\ schema = {"username", "password", "tls", "data"}

FaultNext ==
    \/ ChangeNext
    \/ \E r \in Relations : BaselineCorrupted(r)

FaultSpec == FaultInit /\ [][FaultNext]_vars

\* Change detection of the credentials when a relation-changed handler can
\* stop after _diff has stored the new baseline.
CrashNext ==
    \/ ChangeNext
    \/ \E r \in Relations : \E u \in RemoteUnits(r) : ChangedInterrupted(r, u)

CrashSpec == FaultInit /\ [][CrashNext]_vars

\* The keys and values the remote applications publish in the lifecycle
\* specification: one watched key with one value.
LifeSchema == {"endpoints"}

LifeValues == {ValueNames[1]}

\* The alias lists a charm can pass besides None: the prefixes of AliasNames
\* up to one alias more than the limit, the empty list included.
AliasLists == {SubSeq(AliasNames, 1, n) : n \in 0..(ConnectionLimit + 1)}

\* The state before the charm constructs its manager: the manager is one of
\* managers, the remote applications publish the keys of keys, and the charm
\* passes one of roles as extra_user_roles.
LifeInit(managers, keys, roles) ==
    /\ adapter \in managers
    /\ schema = keys
    /\ \/ relations_aliases = None
       \/ adapter = "database" /\ relations_aliases \in AliasLists
    /\ extra_user_roles \in roles
    /\ leader \in BOOLEAN
    /\ rels = {}
    /\ remote = [r \in Relations |-> EmptyBag]
    /\ unitbag = [r \in Relations |-> EmptyBag]
    /\ appbag = [r \in Relations |-> EmptyBag]
    /\ emitted = << >>
    /\ diff = NoDiff
    /\ last = [op |-> "init", rel |-> 1, unit |-> None, again |-> FALSE]
    /\ constructed = FALSE
    /\ gone = {}
    /\ raised = None
    /\ returned = None
    /\ defined = {}

\* The whole lifecycle: construction of the manager, relations coming and
\* going, leadership changes, relation-joined and relation-changed triggers.
Init == LifeInit(Adapters, LifeSchema, {None, "", EXTRA_USER_ROLES})

Next ==
    \/ Construct
    \/ \E r \in Relations : RelationCreated(r)
    \/ \E r \in Relations : RelationBroken(r)
    \/ LeaderChanged
    \/ \E r \in Relations : DatabaseRelationJoined(r)
    \/ \E r \in Relations : KafkaRelationJoined(r)
    \/ \E r \in Relations : ZookeeperRelationJoined(r)
    \/ \E r \in Relations, k \in RemoteKeys, v \in LifeValues : RemoteSet(r, k, v)
    \/ \E r \in Relations, k \in RemoteKeys : RemoteDel(r, k)
    \/ \E r \in Relations : \E u \in RemoteUnits(r) : DatabaseRelationChanged(r, u)
    \/ \E r \in Relations : \E u \in RemoteUnits(r) : KafkaRelationChanged(r, u)
    \/ \E r \in Relations : \E u \in RemoteUnits(r) : ZookeeperRelationChanged(r, u)

Spec == Init /\ [][Next]_vars

\* The local application databag: the managers' relation-joined handlers and
\* the charm's own writes, while relations come and go and leadership changes.
PublishNext ==
    \/ Construct
    \/ \E r \in Relations : RelationCreated(r)
    \/ \E r \in Relations : RelationBroken(r)
    \/ LeaderChanged
    \/ \E r \in Relations, v \in LifeValues : CharmPublishes(r, v)
    \/ \E r \in Relations : DatabaseRelationJoined(r)
    \/ \E r \in Relations : KafkaRelationJoined(r)
    \/ \E r \in Relations : ZookeeperRelationJoined(r)

PublishSpec == Init /\ [][PublishNext]_vars

\* The accessors of a DatabaseRequires: fetch_relation_data and
\* _get_relation_alias called by the charm between the triggers, the remote
\* applications publishing the reserved key "data" as well.
AccessSchema == {"endpoints", "data"}

AccessInit == LifeInit({"database"}, AccessSchema, {None})

AccessNext ==
    \/ Construct
    \/ \E r \in Relations : RelationCreated(r)
    \/ \E r \in Relations : RelationBroken(r)
    \/ \E r \in Relations : DatabaseRelationJoined(r)
    \/ \E r \in Relations, k \in RemoteKeys, v \in LifeValues : RemoteSet(r, k, v)
    \/ \E r \in Relations, k \in RemoteKeys : RemoteDel(r, k)
    \/ \E r \in Relations : \E u \in RemoteUnits(r) : DatabaseRelationChanged(r, u)
    \/ FetchRelationData
    \/ \E r \in Relations : GetRelationAlias(r)

AccessSpec == AccessInit /\ [][AccessNext]_vars

\* Several DatabaseRequires in one process: the charm constructs further
\* managers, with alias lists of their own, beside the one whose relations
\* come and go.
ProcessInit == LifeInit({"database"}, LifeSchema, {None})

ProcessNext ==
    \/ Construct
    \/ \E aliases \in OtherAliasLists : ConstructAnother(aliases)
    \/ \E r \in Relations : RelationCreated(r)
    \/ \E r \in Relations : RelationBroken(r)
    \/ \E r \in Relations : DatabaseRelationJoined(r)

ProcessSpec == ProcessInit /\ [][ProcessNext]_vars

\* ----------------------------------------------------------- properties

\* Names of the events emitted by the last handler, and those emitted on the
\* unqualified event sources.
Names(events) == {events[i].name : i \in 1..Len(events)}

IsUnqualified(ev) == ev.alias = None

Unqualified(events) == SelectSeq(events, IsUnqualified)

\* How many unqualified events of this name the last handler emitted.
Fired(name) == Cardinality({i \in 1..Len(emitted) : emitted[i].name = name /\ emitted[i].alias = None})

CreatedEvent ==
    CASE adapter = "database" -> "database_created"
      [] adapter = "kafka" -> "topic_created"
      [] adapter = "zookeeper" -> "chroot_created"

EndpointsEvent == IF adapter = "kafka" THEN "bootstrap_server_changed" ELSE "endpoints_changed"

CreatedCondition == "username" \in diff.added /\ "password" \in diff.added

EndpointsCondition == "endpoints" \in diff.added \cup diff.changed

ReadOnlyCondition == "read-only-endpoints" \in diff.added \cup diff.changed

CredentialsCondition == "username" \in diff.changed \/ "password" \in diff.changed

\* C1: when _diff runs twice in succession on a relation with no change of the
\* remote mapping in between, the second call returns empty added, changed
\* and deleted sets.
C1_DiffIdempotent ==
    (last.op \in DiffOps /\ last.again) =>
        (diff.added = {} /\ diff.changed = {} /\ diff.deleted = {})

C1_Witness ==
    /\ last.op = "diff"
    /\ last.again
    /\ {"username", "password"} \subseteq DOMAIN remote[1]
    /\ diff = NoDiff

\* The baseline a _diff call on r reads, and the mapping it compares it with.
Prior(r) ==
    IF "data" \in DOMAIN unitbag[r] THEN json_loads(unitbag[r]["data"]) ELSE EmptyBag

CurrentKeys(r) == DOMAIN remote[r] \ {"data"}

\* C2: every _diff call returns added = keys(current) - keys(prior), deleted =
\* keys(prior) - keys(current) and changed = the common keys whose values
\* differ, current being the remote mapping without the key "data"; with no
\* stored baseline the prior is empty and every current key is added.
C2_DiffStep ==
    \A r \in Relations :
        (last'.op \in DiffOps /\ last'.rel = r) =>
            /\ diff'.added = CurrentKeys(r) \ DOMAIN Prior(r)
            /\ diff'.deleted = DOMAIN Prior(r) \ CurrentKeys(r)
            /\ diff'.changed =
                  {k \in CurrentKeys(r) \cap DOMAIN Prior(r) : Prior(r)[k] # remote[r][k]}
            /\ ("data" \notin DOMAIN unitbag[r] =>
                  /\ diff'.added = CurrentKeys(r)
                  /\ diff'.changed = {}
                  /\ diff'.deleted = {})

C2_DiffFormula == [][C2_DiffStep]_vars

C2_Witness ==
    /\ last.op \in DiffOps
    /\ "data" \in DOMAIN remote[1]
    /\ diff.added # {}
    /\ diff.changed # {}
    /\ diff.deleted # {}

\* C3: the added, changed and deleted sets of every Diff that _diff returns
\* are pairwise disjoint.
C3_Partition ==
    /\ diff.added \cap diff.changed = {}
    /\ diff.added \cap diff.deleted = {}
    /\ diff.changed \cap diff.deleted = {}

C3_Witness ==
    /\ last.op = "changed"
    /\ Cardinality(diff.added) = 2
    /\ Cardinality(diff.changed) = 1
    /\ Cardinality(diff.deleted) = 1

\* C4: one relation-changed trigger emits events of at most one kind, for
\* each of the three managers.
C4_OneKind == Cardinality(Names(emitted)) <= 1

C4_Witness ==
    /\ last.op = "changed"
    /\ adapter = "database"
    /\ CreatedCondition
    /\ EndpointsCondition
    /\ ReadOnlyCondition
    /\ Len(emitted) = 2

\* C5: when username and password are both in added, the trigger fires
\* exactly the manager's Created event and no endpoints, read-only endpoints
\* or credentials event, whatever else was added or changed.
C5_CreatedFirst ==
    (last.op = "changed" /\ CreatedCondition) =>
        /\ Names(emitted) = {CreatedEvent}
        /\ Fired(CreatedEvent) = 1

C5_Witness ==
    /\ last.op = "changed"
    /\ CreatedCondition
    /\ "endpoints" \in diff.changed
    /\ "read-only-endpoints" \in diff.added
    /\ emitted[1].name = "database_created"

\* C6: when the Created condition does not hold and endpoints is in added or
\* changed, the trigger fires the endpoints event (bootstrap_server_changed
\* for Kafka) exactly once on the unqualified source; when endpoints is
\* neither added nor changed it does not fire it.
C6_Endpoints ==
    last.op = "changed" =>
        /\ (~CreatedCondition /\ EndpointsCondition) =>
              (Fired(EndpointsEvent) = 1 /\ Names(emitted) = {EndpointsEvent})
        /\ ~EndpointsCondition => EndpointsEvent \notin Names(emitted)

C6_Witness ==
    /\ last.op = "changed"
    /\ adapter = "kafka"
    /\ "endpoints" \in diff.changed
    /\ Len(emitted) = 1
    /\ emitted[1].name = "bootstrap_server_changed"

\* C7 as stated: for the database manager, whenever endpoints is added or
\* changed the trigger fires endpoints_changed and nothing else.
C7_OnlyEndpointsAlways ==
    (last.op = "changed" /\ adapter = "database" /\ EndpointsCondition) =>
        Names(emitted) = {"endpoints_changed"}

\* C7: for the database manager, a trigger that sees endpoints added or
\* changed never fires read_only_endpoints_changed, whether or not
\* read-only-endpoints was added or changed too; it fires endpoints_changed
\* and nothing else unless username and password were both added, and then
\* it fires database_created and nothing else.
C7_NoReadOnlyWithEndpoints ==
    (last.op = "changed" /\ adapter = "database" /\ EndpointsCondition) =>
        /\ "read_only_endpoints_changed" \notin Names(emitted)
        /\ Names(emitted) =
              IF CreatedCondition THEN {"database_created"} ELSE {"endpoints_changed"}

C7_Witness ==
    /\ last.op = "changed"
    /\ adapter = "database"
    /\ diff.changed = {"endpoints", "read-only-endpoints"}
    /\ Names(emitted) = {"endpoints_changed"}

\* C8: for the database manager, when neither the Created condition nor the
\* endpoints condition holds and read-only-endpoints is in added or changed,
\* the trigger fires read_only_endpoints_changed exactly once on the
\* unqualified source; when read-only-endpoints is neither added nor changed
\* it does not fire it.
C8_ReadOnlyEndpoints ==
    (last.op = "changed" /\ adapter = "database") =>
        /\ (~CreatedCondition /\ ~EndpointsCondition /\ ReadOnlyCondition) =>
              /\ Fired("read_only_endpoints_changed") = 1
              /\ Names(emitted) = {"read_only_endpoints_changed"}
        /\ ~ReadOnlyCondition => "read_only_endpoints_changed" \notin Names(emitted)

C8_Witness ==
    /\ last.op = "changed"
    /\ adapter = "database"
    /\ "read-only-endpoints" \in diff.changed
    /\ "endpoints" \in DOMAIN remote[1]
    /\ Fired("read_only_endpoints_changed") = 1

\* C9: for the Kafka and Zookeeper managers, when neither the Created
\* condition nor the endpoints condition holds and username or password is
\* in changed, the trigger fires credentials_changed exactly once; it does
\* not fire it when no credential field is in changed (added or deleted
\* only).
C9_CredentialsChanged ==
    (last.op = "changed" /\ adapter \in {"kafka", "zookeeper"}) =>
        /\ (~CreatedCondition /\ ~EndpointsCondition /\ CredentialsCondition) =>
              emitted = emit([rel |-> last.rel, unit |-> last.unit], "credentials_changed")
        /\ ~CredentialsCondition => "credentials_changed" \notin Names(emitted)

C9_Witness ==
    /\ last.op = "changed"
    /\ adapter = "zookeeper"
    /\ diff.changed = {"password"}
    /\ Len(emitted) = 1
    /\ emitted[1].name = "credentials_changed"

\* The closed set of event kinds of the constructed manager.
EventKinds ==
    CASE adapter = "database" -> DatabaseEvents
      [] adapter = "kafka" -> KafkaEvents
      [] adapter = "zookeeper" -> ZookeeperEvents

\* C10: every event a manager emits is of its own closed set of kinds; the
\* database manager fires nothing when only username or password changed
\* value, and the Kafka and Zookeeper managers fire nothing when only
\* read-only-endpoints was added or changed.
C10_ClosedKinds ==
    /\ Names(emitted) \subseteq EventKinds
    /\ (adapter = "database" /\ diff.added = {}
            /\ diff.changed \subseteq {"username", "password"}) => emitted = << >>
    /\ (adapter \in {"kafka", "zookeeper"}
            /\ diff.added \cup diff.changed \subseteq {"read-only-endpoints"}) => emitted = << >>

C10_Witness ==
    /\ last.op = "changed"
    /\ adapter = "database"
    /\ diff.changed = {"username", "password"}
    /\ emitted = << >>

\* C11: a relation-changed trigger that arrives while the remote mapping
\* equals the stored baseline (the trigger follows a _diff of the same
\* relation with no remote write in between, or its difference is empty)
\* fires no event at all, neither unqualified nor alias-qualified.
C11_NoChangeNoEvent ==
    (last.op = "changed" /\ (last.again \/ diff = NoDiff)) => emitted = << >>

C11_Witness ==
    /\ last.op = "changed"
    /\ last.again
    /\ DOMAIN remote[1] \ {"data"} # {}
    /\ Prior(1) = new_data(1)
    /\ emitted = << >>

\* The kind DatabaseRequires classifies the last difference to, None when the
\* difference matches no branch of the handler.
DatabaseKind ==
    IF CreatedCondition THEN "database_created"
    ELSE IF EndpointsCondition THEN "endpoints_changed"
    ELSE IF ReadOnlyCondition THEN "read_only_endpoints_changed"
    ELSE None

\* C12: for DatabaseRequires, when the relation of a relation-changed trigger
\* has an alias and the trigger is classified to a kind, exactly two events
\* are emitted: first the unqualified event of that kind, then the event of
\* the same kind qualified with that relation's own alias, which no other
\* live relation holds.
C12_DualDispatch ==
    (/\ adapter = "database"
     /\ last.op = "changed"
     /\ Truthy(AliasOf(last.rel))
     /\ DatabaseKind # None) =>
        /\ Len(emitted) = 2
        /\ emitted[1].name = DatabaseKind
        /\ emitted[1].alias = None
        /\ emitted[2].name = DatabaseKind
        /\ emitted[2].alias = AliasOf(last.rel)
        /\ \A x \in rels \ {last.rel} : AliasOf(x) # emitted[2].alias

C12_Witness ==
    /\ adapter = "database"
    /\ last.op = "changed"
    /\ last.rel = 2
    /\ rels = {1, 2}
    /\ AliasOf(1) = AliasNames[1]
    /\ AliasOf(2) = AliasNames[2]
    /\ Len(emitted) = 2
    /\ emitted[2].alias = AliasNames[2]

\* C13: every event emitted for a relation-changed trigger, unqualified or
\* alias-qualified, carries the relation, the remote application and the
\* remote unit of the trigger.
C13_SamePayload ==
    last.op = "changed" =>
        \A i \in 1..Len(emitted) :
            /\ emitted[i].relation = last.rel
            /\ emitted[i].app = RemoteApp(last.rel)
            /\ emitted[i].unit = last.unit

C13_Witness ==
    /\ last.op = "changed"
    /\ last.rel = 2
    /\ last.unit = UnitNames[2]
    /\ Len(emitted) = 2
    /\ emitted[2].alias = AliasOf(2)
    /\ emitted[2].unit = UnitNames[2]
    /\ emitted[2].app = AppNames[2]

\* The positionally first alias of the list that no live relation holds.
FirstFree(alias) ==
    \E i \in 1..Len(relations_aliases) :
        /\ relations_aliases[i] = alias
        /\ alias \notin Claimed
        /\ \A j \in 1..(i - 1) : relations_aliases[j] \in Claimed

\* C14: _assign_relation_alias, run by relation-joined on a relation without
\* an alias, persists the positionally first alias of the list that no live
\* relation of the relation name holds; run on a relation that has an alias
\* it changes nothing.  No other relation's databag is touched.
C14_AssignStep ==
    \A r \in Relations :
        (/\ adapter = "database"
         /\ HasAliases
         /\ last'.op = "joined"
         /\ last'.rel = r
         /\ raised' = None) =>
            /\ IF Truthy(AliasOf(r)) THEN unitbag' = unitbag ELSE FirstFree(AliasOf(r)')
            /\ \A x \in Relations \ {r} : unitbag'[x] = unitbag[x]

C14_AliasDeterminism == [][C14_AssignStep]_vars

C14_Witness ==
    /\ HasAliases
    /\ last.op = "joined"
    /\ last.rel = 2
    /\ rels = {1, 2}
    /\ gone = {}
    /\ AliasOf(1) = "cluster1"
    /\ AliasOf(2) = "cluster2"

\* C15: no two live relations hold the same persisted alias, whatever the
\* order of relation creations, removals, joins and change triggers.
C15_AliasUnique ==
    \A x \in rels : \A y \in rels \ {x} :
        Truthy(AliasOf(x)) => AliasOf(x) # AliasOf(y)

C15_Witness ==
    /\ rels = {1, 2}
    /\ AliasOf(1) = AliasNames[2]
    /\ AliasOf(2) = AliasNames[1]
    /\ last.op = "changed"

\* C16: once a relation has an alias, no later operation (a relation-joined or
\* relation-changed trigger on it or on another relation included) changes or
\* removes the alias while the relation lives.
C16_StableStep ==
    \A r \in rels \cap rels' :
        Truthy(AliasOf(r)) => AliasOf(r)' = AliasOf(r)

C16_AliasStable == [][C16_StableStep]_vars

C16_Witness ==
    /\ last.op = "joined"
    /\ last.rel = 1
    /\ rels = {1, 2}
    /\ AliasOf(1) = AliasNames[1]
    /\ AliasOf(2) = AliasNames[2]
    /\ "data" \in DOMAIN unitbag[1]
    /\ "data" \in DOMAIN unitbag[2]

C17_JoinStep ==
    \A r \in rels :
        /\ (/\ adapter = "database"
            /\ HasAliases
            /\ last'.op = "joined"
            /\ last'.rel = r
            /\ raised' = None) => Truthy(AliasOf(r)')
        /\ (last'.op = "changed" /\ last'.rel = r) =>
              /\ AliasOf(r)' = AliasOf(r)
              /\ ~Truthy(AliasOf(r)) => \A i \in 1..Len(emitted') : emitted'[i].alias = None

C18_MismatchRejected ==
    (adapter = "database" /\ last.op = "construct" /\ relations_aliases # None) =>
        ((raised = "ValueError" /\ ~constructed) <=> Len(relations_aliases) # ConnectionLimit)

\* Equality of two databags.
BagEq(a, b) == DOMAIN a = DOMAIN b /\ \A k \in DOMAIN a : a[k] = b[k]

\* The data the constructed manager's relation-joined handler passes to
\* _update_relation_data.
JoinedData ==
    CASE adapter = "database" -> database_joined_data
      [] adapter = "kafka" -> kafka_joined_data
      [] adapter = "zookeeper" -> zookeeper_joined_data

\* C19: a step changes the local application databag of a relation that stays
\* live only when the unit is the leader and the step is a relation-joined
\* handler calling _update_relation_data (or the charm's own write); the leader's call leaves the supplied
\* keys in the databag, a non-leader's call changes nothing and raises nothing.
C19_WriteStep ==
    \A r \in rels \cap rels' :
        /\ ~BagEq(appbag'[r], appbag[r]) =>
              (leader /\ last'.op \in {"joined", "charm"} /\ last'.rel = r)
        /\ (last'.op = "joined" /\ last'.rel = r /\ raised' = None) =>
              IF leader
              THEN \A k \in DOMAIN JoinedData :
                      JoinedData[k] # "" =>
                          k \in DOMAIN appbag'[r] /\ appbag'[r][k] = JoinedData[k]
              ELSE BagEq(appbag'[r], appbag[r])

C19_LeaderGated == [][C19_WriteStep]_vars

C19_Witness ==
    /\ last.op = "joined"
    /\ last.rel = 2
    /\ ~leader
    /\ raised = None
    /\ rels = {1, 2}
    /\ DOMAIN appbag[2] = {}
    /\ DOMAIN appbag[1] # {}

\* C20 as stated: after the leader has processed relation-joined,
\* ZookeeperRequires has published "chroot" with the configured chroot, with
\* or without extra user roles (then next to "extra-user-roles"), and no key
\* other than those two.
C20_ChrootPublished ==
    (adapter = "zookeeper" /\ last.op = "joined" /\ leader) =>
        /\ "chroot" \in DOMAIN appbag[last.rel]
        /\ appbag[last.rel]["chroot"] = chroot
        /\ extra_user_roles # None =>
              /\ "extra-user-roles" \in DOMAIN appbag[last.rel]
              /\ appbag[last.rel]["extra-user-roles"] = extra_user_roles
        /\ DOMAIN appbag[last.rel] \subseteq {"chroot", "extra-user-roles"}

\* The key under which a manager publishes its resource, and the resource.
ResourceKey == IF adapter = "database" THEN "database" ELSE "topic"

Resource == IF adapter = "database" THEN database ELSE topic

\* C21: a relation-joined trigger processed by the leader leaves, for
\* DatabaseRequires, "database" with the configured name and, for
\* KafkaRequires, "topic" with the configured topic in the local application
\* databag; "extra-user-roles" is there, with the roles, exactly when roles
\* were supplied; every other key of the databag keeps its value and no other
\* key appears.
C21_JoinedStep ==
    \A r \in rels :
        (/\ adapter \in {"database", "kafka"}
         /\ last'.op = "joined"
         /\ last'.rel = r
         /\ raised' = None
         /\ leader) =>
            /\ ResourceKey \in DOMAIN appbag'[r]
            /\ appbag'[r][ResourceKey] = Resource
            /\ "extra-user-roles" \in DOMAIN appbag'[r] <=> Truthy(extra_user_roles)
            /\ Truthy(extra_user_roles) => appbag'[r]["extra-user-roles"] = extra_user_roles
            /\ DOMAIN appbag'[r] = DOMAIN appbag[r] \cup DOMAIN appbag'[r]
            /\ DOMAIN appbag'[r] \subseteq DOMAIN appbag[r] \cup {ResourceKey, "extra-user-roles"}
            /\ \A k \in DOMAIN appbag[r] \ {ResourceKey, "extra-user-roles"} :
                  appbag'[r][k] = appbag[r][k]

C21_JoinedMerge == [][C21_JoinedStep]_vars

C21_Witness ==
    /\ adapter = "kafka"
    /\ last.op = "joined"
    /\ leader
    /\ DOMAIN appbag[last.rel] = {CharmKey, "topic", "extra-user-roles"}
    /\ appbag[last.rel]["topic"] = topic
    /\ appbag[last.rel]["extra-user-roles"] = EXTRA_USER_ROLES

\* C22: fetch_relation_data returns one entry for each live relation of the
\* relation name, keyed by the relation id: the remote application's databag
\* as it is at the call, without the key "data"; the call changes no databag,
\* no relation and nothing of the manager.
C22_FetchStep ==
    last'.op = "fetch" =>
        /\ DOMAIN returned' = rels
        /\ \A r \in rels :
              /\ DOMAIN returned'[r] = DOMAIN remote[r] \ {"data"}
              /\ \A k \in DOMAIN returned'[r] : returned'[r][k] = remote[r][k]
        /\ UNCHANGED <<config, defined, constructed, leader, rels, gone, remote, unitbag, appbag>>

C22_FetchExact == [][C22_FetchStep]_vars

C22_Witness ==
    /\ last.op = "fetch"
    /\ rels = {1, 2}
    /\ DOMAIN remote[1] = {"endpoints", "data"}
    /\ DOMAIN remote[2] = {"data"}
    /\ DOMAIN returned[1] = {"endpoints"}
    /\ DOMAIN returned[2] = {}

\* C23: the key "data" is never in the added, changed or deleted set a _diff
\* call returns and never in the baseline it stores; a _diff call made while
\* the remote databag differs from the baseline in the key "data" at most (the
\* key was added, changed or deleted alone) returns three empty sets, and the
\* handler fires no event.
C23_DataStep ==
    \A r \in rels :
        (last'.op \in DiffOps /\ last'.rel = r) =>
            /\ "data" \notin diff'.added \cup diff'.changed \cup diff'.deleted
            /\ "data" \notin DOMAIN Prior(r)'
            /\ (/\ DOMAIN Prior(r) = CurrentKeys(r)
                /\ \A k \in CurrentKeys(r) : Prior(r)[k] = remote[r][k]) =>
                  (diff' = NoDiff /\ emitted' = << >>)

C23_DataReserved == [][C23_DataStep]_vars

C23_Witness ==
    /\ last.op = "changed"
    /\ ~last.again
    /\ diff = NoDiff
    /\ emitted = << >>
    /\ "data" \in DOMAIN remote[1]
    /\ {"username", "password"} \subseteq DOMAIN Prior(1)
    /\ "data" \notin DOMAIN Prior(1)

\* C24 as stated: a _diff call that finds a baseline that is not JSON raises
\* no error, returns every current key as added, and stores the current
\* mapping as the new baseline.
C24_CorruptStep ==
    \A r \in rels :
        (/\ last'.op \in DiffOps
         /\ last'.rel = r
         /\ ~Parses(Get(unitbag[r], "data", EmptyJson))) =>
            /\ raised' = None
            /\ diff' = [added |-> CurrentKeys(r), changed |-> {}, deleted |-> {}]
            /\ Parses(unitbag'[r]["data"])
            /\ DOMAIN Prior(r)' = CurrentKeys(r)
            /\ \A k \in CurrentKeys(r) : Prior(r)'[k] = remote[r][k]

C24_CorruptFailsOpen == [][C24_CorruptStep]_vars

\* C25 as stated: when an earlier trigger saw exactly one of "username" and
\* "password" (the stored baseline holds just that one) and a later
\* relation-changed trigger sees both, the later trigger fires the created
\* event of its manager.
C25_DeferredStep ==
    \A r \in rels :
        (/\ last'.op = "changed"
         /\ last'.rel = r
         /\ "data" \in DOMAIN unitbag[r]
         /\ Cardinality(DOMAIN Prior(r) \cap {"username", "password"}) = 1
         /\ {"username", "password"} \subseteq DOMAIN remote[r]) =>
            \E i \in 1..Len(emitted') : emitted'[i].name = CreatedEvent

C25_DeferredCreated == [][C25_DeferredStep]_vars

\* The kind each manager classifies the last difference to, None when the
\* difference matches no branch of its handler.
KafkaKind ==
    IF CreatedCondition THEN "topic_created"
    ELSE IF EndpointsCondition THEN "bootstrap_server_changed"
    ELSE IF CredentialsCondition THEN "credentials_changed"
    ELSE None

ZookeeperKind ==
    IF CreatedCondition THEN "chroot_created"
    ELSE IF EndpointsCondition THEN "endpoints_changed"
    ELSE IF CredentialsCondition THEN "credentials_changed"
    ELSE None

Kind ==
    CASE adapter = "database" -> DatabaseKind
      [] adapter = "kafka" -> KafkaKind
      [] adapter = "zookeeper" -> ZookeeperKind

\* The events of the last trigger as its difference (baseline against remote
\* update), its relation's alias and its relation and unit determine them.
EventsOfTrigger ==
    LET e == [rel |-> last.rel, unit |-> last.unit]
        alias == AliasOf(last.rel)
    IN  IF Kind = None THEN << >>
        ELSE IF adapter = "database" /\ Truthy(alias)
        THEN <<Event(Kind, None, e), Event(Kind, alias, e)>>
        ELSE <<Event(Kind, None, e)>>

\* C26: the events a relation-changed trigger fires are those its difference
\* and its relation's alias determine, whether the unit is the leader or
\* not: same kinds, same count, unqualified and alias-qualified.
C26_LeaderIndependent ==
    last.op = "changed" => emitted = EventsOfTrigger

C26_Witness ==
    /\ last.op = "changed"
    /\ ~leader
    /\ Len(emitted) = 2
    /\ emitted[1].alias = None
    /\ emitted[2].alias = AliasOf(last.rel)
    /\ DOMAIN appbag[last.rel] = {}

\* C27: after every _diff call that returned, the baseline stored for its
\* relation is the remote application's databag the call read, without the key
\* "data": whether the difference was empty or not, whether an event fired or
\* not.
C27_BaselineIsCurrent ==
    (last.op \in DiffOps /\ raised = None) =>
        /\ "data" \in DOMAIN unitbag[last.rel]
        /\ DOMAIN Prior(last.rel) = CurrentKeys(last.rel)
        /\ \A k \in CurrentKeys(last.rel) : Prior(last.rel)[k] = remote[last.rel][k]

C27_Witness ==
    /\ last.op = "changed"
    /\ emitted # << >>
    /\ diff.deleted # {}
    /\ diff.changed # {}
    /\ "data" \in DOMAIN remote[1]
    /\ DOMAIN Prior(1) = {"endpoints", "read-only-endpoints"}

\* C28: a relation-changed trigger for relation r changes nothing but the
\* baseline stored for r: the remote databags, the local application databags,
\* the set of relations, the alias of r and the whole local unit databag
\* (baseline and alias) of every other relation stay as they were.
C28_ChangedStep ==
    \A r \in rels :
        (last'.op = "changed" /\ last'.rel = r) =>
            /\ UNCHANGED <<config, defined, constructed, leader, rels, gone, remote, appbag>>
            /\ \A x \in Relations \ {r} : unitbag'[x] = unitbag[x]
            /\ DOMAIN unitbag'[r] = DOMAIN unitbag[r] \cup {"data"}
            /\ \A k \in DOMAIN unitbag[r] \ {"data"} : unitbag'[r][k] = unitbag[r][k]

C28_ChangedFrame == [][C28_ChangedStep]_vars

C28_Witness ==
    /\ last.op = "changed"
    /\ last.rel = 2
    /\ rels = {1, 2}
    /\ emitted # << >>
    /\ "data" \in DOMAIN unitbag[1]
    /\ DOMAIN Prior(1) = {}
    /\ DOMAIN Prior(2) = {"endpoints"}
    /\ Truthy(AliasOf(1))
    /\ Truthy(AliasOf(2))
    /\ DOMAIN appbag[1] # {}

\* C29: _get_relation_alias changes no state, so it never assigns an alias;
\* it returns the alias persisted for the relation of the given id, and None
\* for a live relation that has none persisted and for an id that is not a
\* live relation of the relation name.
C29_LookupStep ==
    \A id \in Relations :
        (last'.op = "alias" /\ last'.rel = id) =>
            /\ UNCHANGED <<config, defined, constructed, leader, rels, gone, remote, unitbag, appbag>>
            /\ returned' =
                  IF id \in rels /\ "alias" \in DOMAIN unitbag[id]
                  THEN unitbag[id]["alias"]
                  ELSE None

C29_PureLookup == [][C29_LookupStep]_vars

C29_Witness ==
    /\ HasAliases
    /\ last.op = "alias"
    /\ last.rel = 2
    /\ rels = {1, 2}
    /\ Truthy(AliasOf(1))
    /\ "alias" \notin DOMAIN unitbag[2]
    /\ "data" \in DOMAIN unitbag[2]
    /\ returned = None

\* C30: in a DatabaseRequires constructed without an alias list, the
\* relation-joined handler's _assign_relation_alias persists nothing and does
\* not raise, _get_relation_alias returns None for every id, and a
\* relation-changed trigger raises nothing and emits its classified event on
\* the unqualified event source only.
C30_NoListStep ==
    (adapter = "database" /\ relations_aliases = None) =>
        /\ last'.op = "joined" => (unitbag' = unitbag /\ raised' = None)
        /\ last'.op = "alias" => returned' = None
        /\ last'.op = "changed" =>
              /\ raised' = None
              /\ \A i \in 1..Len(emitted') : emitted'[i].alias = None
              /\ Len(emitted') = IF Kind' = None THEN 0 ELSE 1
        /\ \A r \in Relations : "alias" \notin DOMAIN unitbag'[r]

C30_NoAliasList == [][C30_NoListStep]_vars

C30_Witness ==
    /\ adapter = "database"
    /\ relations_aliases = None
    /\ leader
    /\ last.op = "changed"
    /\ rels = {1, 2}
    /\ Len(emitted) = 1
    /\ emitted[1].name = "endpoints_changed"
    /\ DOMAIN appbag[last.rel] # {}
    /\ "alias" \notin DOMAIN unitbag[last.rel]

\* C32: several generic-database managers constructed in one process never
\* collide: the construction of a further manager succeeds, whatever alias
\* names its list shares with an earlier manager's, and it leaves the event
\* sources defined for the earlier manager as they were, adding only its own.
C32_ManagersNeverCollide ==
    last.op = "another" => raised = None /\ DefinedEvents \subseteq defined

\* C33: every alias persisted for a live relation is an element of the
\* manager's relations_aliases, so each alias-qualified event
\* _emit_aliased_event looks up for it was defined by __init__.
C33_AliasInPool ==
    \A r \in rels :
        Truthy(AliasOf(r)) =>
            /\ adapter = "database"
            /\ HasAliases
            /\ \E i \in 1..Len(relations_aliases) : relations_aliases[i] = AliasOf(r)
            /\ \A n \in DatabaseEvents : <<AliasOf(r), n>> \in defined

C33_Witness ==
    /\ rels = {2}
    /\ gone = {1}
    /\ last.op = "changed"
    /\ last.rel = 2
    /\ AliasOf(2) = AliasNames[1]
    /\ \E i \in 1..Len(emitted) : emitted[i].alias = AliasNames[1]

\* C34: with a list of ConnectionLimit aliases and at most ConnectionLimit
\* live relations, _assign_relation_alias never fails, in whatever order the
\* relations join and are removed: no relation-joined handler has raised,
\* and in every state a call for any live relation finds each alias it
\* removes in the list and a first element to take.
C34_AssignNeverFails ==
    /\ last.op = "joined" => raised = None
    /\ (constructed /\ adapter = "database") =>
           \A r \in rels : assign_raises(r) = None

C34_Witness ==
    /\ HasAliases
    /\ last.op = "joined"
    /\ raised = None
    /\ gone = {1}
    /\ rels = {2}
    /\ AliasOf(2) = AliasNames[1]

\* C35: alias assignment does not depend on leadership: a relation-joined
\* trigger handled by a non-leader unit of a manager with an alias list, for
\* a relation without an alias, persists an alias in the local unit databag
\* and leaves every local application databag as it was.
C35_NonLeaderStep ==
    \A r \in rels :
        (/\ adapter = "database"
         /\ HasAliases
         /\ ~leader
         /\ ~Truthy(AliasOf(r))
         /\ last'.op = "joined"
         /\ last'.rel = r) =>
            /\ raised' = None
            /\ Truthy(Get(unitbag'[r], "alias", None))
            /\ appbag' = appbag

C35_NonLeaderAssigns == [][C35_NonLeaderStep]_vars

C35_Witness ==
    /\ ~leader
    /\ last.op = "joined"
    /\ Truthy(AliasOf(last.rel))
    /\ DOMAIN appbag[last.rel] = {}

\* C36: a relation-joined trigger for relation r changes at most the alias
\* of r (only when r has none and the manager has an alias list) and the
\* local application databag of r (only on the leader); the stored baselines,
\* the remote databags and the databags of every other relation stay as they
\* were, and a second relation-joined trigger for r right after the first
\* changes no databag at all.
C36_JoinedStep ==
    \A r \in rels :
        (last'.op = "joined" /\ last'.rel = r) =>
            /\ UNCHANGED <<config, defined, constructed, leader, rels, gone, remote>>
            /\ \A x \in Relations \ {r} :
                   unitbag'[x] = unitbag[x] /\ appbag'[x] = appbag[x]
            /\ DOMAIN unitbag'[r] \ {"alias"} = DOMAIN unitbag[r] \ {"alias"}
            /\ \A k \in DOMAIN unitbag[r] \ {"alias"} : unitbag'[r][k] = unitbag[r][k]
            /\ ~BagEq(unitbag'[r], unitbag[r]) =>
                   /\ adapter = "database"
                   /\ HasAliases
                   /\ ~Truthy(AliasOf(r))
            /\ ~BagEq(appbag'[r], appbag[r]) => leader
            /\ (last.op = "joined" /\ last.rel = r) =>
                   UNCHANGED <<unitbag, appbag>>

C36_JoinedFrame == [][C36_JoinedStep]_vars

C36_Witness ==
    /\ last.op = "joined"
    /\ last.rel = 2
    /\ rels = {1, 2}
    /\ leader
    /\ "data" \in DOMAIN unitbag[1]
    /\ "data" \in DOMAIN unitbag[2]
    /\ AliasOf(1) = AliasNames[2]
    /\ AliasOf(2) = AliasNames[1]
    /\ DOMAIN appbag[1] = {}
    /\ DOMAIN appbag[2] # {}
    /\ DOMAIN remote[2] # {}

\* C31: delivery is at most once: when a relation-changed handler has stopped
\* after _diff stored the new baseline and before any event was emitted, the
\* next relation-changed trigger for the relation, with no remote write in
\* between, computes an empty diff and emits no event.
C31_LostStep ==
    \A r \in rels :
        (/\ last.op = "interrupted"
         /\ last.rel = r
         /\ last'.op = "changed"
         /\ last'.rel = r) =>
            /\ diff' = NoDiff
            /\ emitted' = << >>
            /\ UNCHANGED unitbag

C31_AtMostOnce == [][C31_LostStep]_vars

C31_Witness ==
    /\ last.op = "changed"
    /\ last.again
    /\ diff = NoDiff
    /\ emitted = << >>
    /\ {"username", "password"} \subseteq DOMAIN Prior(1)
    /\ Prior(1)["username"] # Prior(1)["password"]

\* The keys whose arrival makes the Created event.
Credentials == {"username", "password"}

\* C37: Created does not fire twice: a trigger fires Created only when the
\* baseline holds neither "username" nor "password" and leaves a baseline
\* that holds both, and a key leaves the baseline only in a _diff call that
\* reports it in deleted, the key being absent from the remote databag.  So
\* between two Created events of a relation there is a call with "username"
\* in deleted and one with "password" in deleted, and Created fires at most
\* once while the credentials stay in the remote databag.
C37_CreatedStep ==
    \A r \in rels :
        /\ (/\ last'.op = "changed"
            /\ last'.rel = r
            /\ \E i \in 1..Len(emitted') : emitted'[i].name = CreatedEvent) =>
               /\ Credentials \cap DOMAIN Prior(r) = {}
               /\ Credentials \subseteq DOMAIN Prior(r)'
        /\ \A k \in Credentials :
               (k \in DOMAIN Prior(r) /\ k \notin DOMAIN Prior(r)') =>
                   /\ last'.op \in DiffOps
                   /\ last'.rel = r
                   /\ k \in diff'.deleted
                   /\ k \notin DOMAIN remote[r]

C37_CreatedOnce == [][C37_CreatedStep]_vars

C37_Witness ==
    /\ last.op = "changed"
    /\ ~last.again
    /\ Credentials \subseteq diff.changed
    /\ Fired(CreatedEvent) = 0
    /\ Credentials \subseteq DOMAIN Prior(1)

\* The unqualified event a manager fires for a change of the field.
FieldEvent(field) ==
    IF field = "endpoints" THEN EndpointsEvent ELSE "read_only_endpoints_changed"

\* C38: a change absorbed by an event of higher priority is not notified
\* later: every relation-changed trigger, whatever it fires, leaves a baseline
\* that records every current value, and a trigger fires the event of
\* "endpoints" or of "read-only-endpoints" only when the field's current
\* value differs from the baseline's, that is when the field has changed
\* since the last trigger.
C38_AbsorbedStep ==
    \A r \in rels :
        (last'.op = "changed" /\ last'.rel = r) =>
            /\ \A k \in CurrentKeys(r) :
                   k \in DOMAIN Prior(r)' /\ Prior(r)'[k] = remote[r][k]
            /\ \A f \in {"endpoints", "read-only-endpoints"} :
                   (\E i \in 1..Len(emitted') : emitted'[i].name = FieldEvent(f)) =>
                       /\ f \in CurrentKeys(r)
                       /\ f \in DOMAIN Prior(r) => Prior(r)[f] # remote[r][f]

C38_AbsorbedNotLater == [][C38_AbsorbedStep]_vars

C38_Witness ==
    /\ adapter = "database"
    /\ last.op = "changed"
    /\ Fired("endpoints_changed") = 1
    /\ Fired("read_only_endpoints_changed") = 0
    /\ "endpoints" \in diff.changed
    /\ "read-only-endpoints" \in diff.changed
    /\ Prior(1)["read-only-endpoints"] = remote[1]["read-only-endpoints"]

\* C39: a trigger whose diff has no watched key in added or changed (only
\* deleted keys, or only other keys added or changed) fires no event, for
\* every manager, and still stores the current remote data as the baseline;
\* so the deletion of "endpoints", "username" or "password" is not notified.
C39_NothingWatched ==
    (/\ last.op = "changed"
     /\ (diff.added \cup diff.changed) \cap WatchedKeys = {}) =>
        /\ emitted = << >>
        /\ BagEq(Prior(last.rel), new_data(last.rel))

C39_Witness ==
    /\ last.op = "changed"
    /\ diff.deleted \cap {"endpoints", "username", "password"} # {}
    /\ "tls" \in diff.added
    /\ diff.changed = {}
    /\ emitted = << >>
    /\ "tls" \in DOMAIN Prior(last.rel)
    /\ DOMAIN Prior(last.rel) \cap diff.deleted = {}

====
